---- MODULE Spec2Model ----
(***************************************************************************)
(* Model of vantron_remote_media_server/server.py: one MediaPlayerServer,  *)
(* its shared PlayerState, the set of registered connections, and one      *)
(* handle_client coroutine per connection.  asyncio is cooperative: a      *)
(* coroutine runs without interruption between two suspensions, so every   *)
(* action of Spec is the code between two awaits that can suspend (the     *)
(* socket read of `async for` and the socket writes).  SpecStatements      *)
(* follows the same coroutines statement by statement, with the thread     *)
(* handed over at the awaits that suspend.                                 *)
(*                                                                         *)
(* Python values: None is the empty sequence and a present value v is      *)
(* <<v>> (Optional fields); a dict is a record with the set of its keys;   *)
(* floats of the volume are counted in tenths (10 is 1.0).                 *)
(***************************************************************************)
EXTENDS Integers, Sequences, FiniteSets, TLC

\* ------------------------------------------------------------------ bounds
MaxConns == 2      \* connections accepted during a run
MaxCommands == 2   \* commands read during a run that is followed statement
                   \* by statement

Conns == 1..MaxConns

\* --------------------------------------------------------- Python values
None == <<>>
Some(v) == <<v>>
IsNone(o) == o = <<>>
Val(o) == o[1]

\* ------------------------------------------------------------ PlayerState
\* @dataclass PlayerState: the defaults are the state after construction.
PlayerState == [state |-> "idle", media |-> None, volume |-> 10,
                muted |-> FALSE, error |-> None]

\* get_state_dict: the five fields of the state, as they are now.
get_state_dict(self) ==
    [state |-> self.state.state, media |-> self.state.media,
     volume |-> self.state.volume, muted |-> self.state.muted,
     error |-> self.state.error]

\* ------------------------------------------------------------ wire frames
\* the message built by broadcast_state and by send_state_update
StateChanged(self) ==
    [frame |-> "notification", method |-> "stateChanged",
     params |-> get_state_dict(self)]

\* create_error_response that never echoes the id
create_error_response_null_id(request_id, code, message) ==
    [frame |-> "error", code |-> code, message |-> message, id |-> None]

\* create_error_response / the error_msg of send_error
create_error_response(request_id, code, message) ==
    [frame |-> "error", code |-> code, message |-> message, id |-> request_id]

\* the success response of handle_request
SuccessResponse(result, request_id) ==
    [frame |-> "result", result |-> result, id |-> request_id]

\* results of the handlers
RTrue == [t |-> "bool", b |-> TRUE]
RDict(d) == [t |-> "dict", d |-> d]
RList(l) == [t |-> "list", l |-> l]
RNone == [t |-> "NoneType"]
RResponse(r) == [t |-> "response", r |-> r]

\* ------------------------------------------------------- decoded JSON
\* A decoded JSON value as the handlers use it: py is its Python type, keys
\* the keys of a dict, and one field per key the code reads.  params is
\* Optional: the value of the key "params", itself such a value.
NoLevel == [t |-> "null", v |-> 0]
NoOptions == [py |-> "dict", keys |-> {}, autoplay |-> TRUE]
EmptyDict == [py |-> "dict", keys |-> {}, method |-> "", id |-> None,
              params |-> None, level |-> NoLevel, url |-> "",
              options |-> NoOptions]
EmptyList == [EmptyDict EXCEPT !.py = "list"]
JsonNull == [EmptyDict EXCEPT !.py = "NoneType"]

\* key in d, for a dict or the empty list (None is not iterable: the
\* callers raise TypeError before they ask)
Has(d, key) == d.py = "dict" /\ key \in d.keys

\* request.get("id")
GetId(request) == IF Has(request, "id") THEN request.id ELSE None

\* request.get("params", {})
GetParams(request) ==
    IF Has(request, "params") THEN Val(request.params) ELSE EmptyDict

\* params.get("options", {})
GetOptions(params) ==
    IF Has(params, "options") THEN params.options ELSE NoOptions

\* options.get("autoplay", True), as a truth value
GetAutoplay(options) ==
    IF "autoplay" \in options.keys THEN options.autoplay ELSE TRUE

\* the largest magnitude of a number that float() converts, on the scale
\* of the model: a number above it stands for a JSON integer of 2**1024 or
\* more, which json.loads reads as an int and float() refuses
FloatMax == 1000000

\* float(x): a number or a numeric string converts, unless it is an integer
\* too large for a float, which raises OverflowError; "nan" and NaN give
\* NaN, other strings raise ValueError, null raises TypeError
CanFloat(x) ==
    \/ x.t \in {"numeric_string", "nan"}
    \/ x.t = "number" /\ 0 - FloatMax <= x.v /\ x.v <= FloatMax
float(x) == [nan |-> x.t = "nan", v |-> x.v]
FloatErrorType(x) ==
    CASE x.t = "null" -> "TypeError"
      [] x.t = "number" -> "OverflowError"
      [] OTHER -> "ValueError"
FloatErrorText(x) ==
    CASE x.t = "null" ->
            "float() argument must be a string or a real number, not 'NoneType'"
      [] x.t = "number" -> "int too large to convert to float"
      [] OTHER -> "could not convert string to float: 'abc'"

\* Python's min(a, b) and max(a, b) on floats keep the first argument
\* unless the second compares smaller (larger); every comparison with NaN
\* is false
FloatLess(a, b) == ~a.nan /\ ~b.nan /\ a.v < b.v
pymin(a, b) == IF FloatLess(b, a) THEN b ELSE a
pymax(a, b) == IF FloatLess(a, b) THEN b ELSE a
Float(n) == [nan |-> FALSE, v |-> n]

\* ClampLevel without the upper limit
ClampLevel_no_upper_limit(x) == pymax(Float(0), float(x)).v

\* max(0.0, min(1.0, float(level))), in tenths
ClampLevel(x) == pymax(Float(0), pymin(Float(10), float(x))).v

\* ------------------------------------------------- outcome of a call
Return(self, val) ==
    [self |-> self, raised |-> FALSE, type |-> "", text |-> "", val |-> val]
Raise(self, type, text) ==
    [self |-> self, raised |-> TRUE, type |-> type, text |-> text,
     val |-> RNone]

\* --------------------------------------------------------- broadcast
\* Deliver with a loop that ends at the first connection that is not open
Deliver_stops_at_closed(self, frame) ==
    [self EXCEPT !.sent =
        [c \in Conns |->
            IF /\ c \in self.connections
               /\ \A d \in self.connections : d <= c => self.open[d]
            THEN Append(self.sent[c], frame) ELSE self.sent[c]],
        !.nbroadcast = self.nbroadcast + 1]

\* Deliver with a loop that stops after the first connection
Deliver_first(self, frame) ==
    [self EXCEPT !.sent =
        [c \in Conns |->
            IF /\ c \in self.connections /\ self.open[c]
               /\ \A d \in self.connections : c <= d
            THEN Append(self.sent[c], frame) ELSE self.sent[c]],
        !.nbroadcast = self.nbroadcast + 1]

\* websockets.broadcast(self.connections, data): the frame is written to
\* every connection of the set that is open; the others are skipped.
Deliver(self, frame) ==
    [self EXCEPT !.sent =
        [c \in Conns |->
            IF c \in self.connections /\ self.open[c]
            THEN Append(self.sent[c], frame) ELSE self.sent[c]],
        !.nbroadcast = self.nbroadcast + 1]

\* broadcast_state
broadcast_state(self) ==
    IF self.connections = {} THEN self
    ELSE Deliver(self, StateChanged(self))

\* ---------------------------------------------------------- handlers
\* Each handler takes the server (its state, the registered connections,
\* the frames written to each connection since the coroutine resumed, and
\* the number of calls of websockets.broadcast since then) and the params,
\* and gives the server afterwards with the value returned or the exception
\* raised.

handle_getState(self, params) == Return(self, RDict(get_state_dict(self)))

handle_getSupportedMediaTypes(self, params) ==
    Return(self, RList(<<"music">>))

\* handle_play without the test of the current state
handle_play_always(self, params) ==
    Return(broadcast_state([self EXCEPT !.state.state = "playing"]), RTrue)

handle_play(self, params) ==
    IF self.state.state = "paused"
    THEN Return(broadcast_state([self EXCEPT !.state.state = "playing"]),
                RTrue)
    ELSE Return(self, RTrue)

handle_pause(self, params) ==
    IF self.state.state = "playing"
    THEN Return(broadcast_state([self EXCEPT !.state.state = "paused"]),
                RTrue)
    ELSE Return(self, RTrue)

\* handle_stop that leaves media as it is
handle_stop_keeps_media(self, params) ==
    Return(broadcast_state([self EXCEPT !.state.state = "idle"]), RTrue)

handle_stop(self, params) ==
    LET s1 == [self EXCEPT !.state.state = "idle"]
        s2 == [s1 EXCEPT !.state.media = None]
    IN Return(broadcast_state(s2), RTrue)

handle_setVolume(self, params) ==
    IF params.py = "NoneType"
    THEN Raise(self, "TypeError",
               "argument of type 'NoneType' is not iterable")
    ELSE IF ~Has(params, "level") THEN Return(self, RTrue)
    ELSE IF ~CanFloat(params.level)
    THEN Raise(self, FloatErrorType(params.level),
               FloatErrorText(params.level))
    ELSE LET level == ClampLevel(params.level)
             s1 == [self EXCEPT !.state.volume = level]
         IN Return(broadcast_state(s1), RTrue)

\* the dict handle_load stores in state.media
LoadedMedia(url) ==
    [url |-> url, media_type |-> "music", duration |-> 0, position |-> 0]

\* handle_load that broadcasts as soon as media is set, before the options
\* are read
handle_load_broadcast_first(self, params) ==
    IF params.py = "NoneType"
    THEN Raise(self, "TypeError",
               "argument of type 'NoneType' is not iterable")
    ELSE IF ~Has(params, "url") THEN Raise(self, "ValueError", "URL is required")
    ELSE LET s1 == broadcast_state(
                     [self EXCEPT !.state.media = Some(LoadedMedia(params.url))])
             options == GetOptions(params)
         IN IF options.py # "dict"
            THEN Raise(s1, "AttributeError",
                       "'NoneType' object has no attribute 'get'")
            ELSE Return([s1 EXCEPT !.state.state =
                            IF GetAutoplay(options) THEN "playing"
                            ELSE "paused"], RTrue)

handle_load(self, params) ==
    IF params.py = "NoneType"
    THEN Raise(self, "TypeError",
               "argument of type 'NoneType' is not iterable")
    ELSE IF ~Has(params, "url") THEN Raise(self, "ValueError", "URL is required")
    ELSE LET s1 == [self EXCEPT !.state.media = Some(LoadedMedia(params.url))]
             options == GetOptions(params)
         IN IF options.py # "dict"
            THEN Raise(s1, "AttributeError",
                       "'NoneType' object has no attribute 'get'")
            ELSE LET s2 == [s1 EXCEPT !.state.state =
                                IF GetAutoplay(options) THEN "playing"
                                ELSE "paused"]
                 IN Return(broadcast_state(s2), RTrue)

\* handle_client reached through the dispatcher: its first statement reads
\* websocket.remote_address, which no decoded JSON value has
handle_client_as_method(self, params) ==
    Raise(self, "AttributeError",
          CASE params.py = "dict" ->
                  "'dict' object has no attribute 'remote_address'"
            [] params.py = "list" ->
                  "'list' object has no attribute 'remote_address'"
            [] OTHER ->
                  "'NoneType' object has no attribute 'remote_address'")

\* ---------------------------------------------------------- dispatcher
\* the names n for which getattr(self, "handle_" + n) finds a method
HandlerNames == {"getState", "getSupportedMediaTypes", "play", "pause",
                 "stop", "setVolume", "load", "client", "request"}

RECURSIVE handle_request(_, _)

\* IsNotification without the test of the id
IsNotification_never(request_id) == FALSE

\* `if request_id is None`: the request is a notification
IsNotification(request_id) == IsNone(request_id)

\* result = await handler(params)
CallHandler(self, method, params) ==
    CASE method = "getState" -> handle_getState(self, params)
      [] method = "getSupportedMediaTypes" ->
            handle_getSupportedMediaTypes(self, params)
      [] method = "play" -> handle_play(self, params)
      [] method = "pause" -> handle_pause(self, params)
      [] method = "stop" -> handle_stop(self, params)
      [] method = "setVolume" -> handle_setVolume(self, params)
      [] method = "load" -> handle_load(self, params)
      [] method = "client" -> handle_client_as_method(self, params)
      [] method = "request" ->
            LET r == handle_request(self, params)
            IN IF r.raised \/ IsNone(r.val) THEN [r EXCEPT !.val = RNone]
               ELSE [r EXCEPT !.val = RResponse(Val(r.val))]

\* handle_request that calls the handler of a notification and drops what it
\* returns
handle_request_runs_notifications(self, request) ==
    IF request.py # "dict"
    THEN Raise(self, "AttributeError",
               "'list' object has no attribute 'get'")
    ELSE IF ~Has(request, "method")
    THEN Return(self, Some(create_error_response(GetId(request), -32600,
                                                 "Invalid request")))
    ELSE IF request.method \notin HandlerNames
    THEN IF IsNotification(GetId(request)) THEN Return(self, None)
         ELSE Return(self, Some(create_error_response(
                         GetId(request), -32601, "Method not found")))
    ELSE LET r == CallHandler(self, request.method, GetParams(request))
         IN IF IsNotification(GetId(request)) THEN Return(r.self, None)
            ELSE IF r.raised
            THEN Return(r.self, Some(create_error_response(
                            GetId(request), -32603, r.text)))
            ELSE Return(r.self, Some(SuccessResponse(r.val,
                                                     GetId(request))))

\* handle_request: val is the Optional response
handle_request(self, request) ==
    IF request.py = "NoneType"
    THEN Raise(self, "TypeError",
               "argument of type 'NoneType' is not iterable")
    ELSE IF request.py # "dict"
    THEN Raise(self, "AttributeError",
               "'list' object has no attribute 'get'")
    ELSE IF ~Has(request, "method")
    THEN Return(self, Some(create_error_response(GetId(request), -32600,
                                                 "Invalid request")))
    ELSE LET method == request.method
             params == GetParams(request)
             request_id == GetId(request)
         IN IF IsNotification(request_id) THEN Return(self, None)
            ELSE IF method \notin HandlerNames
            THEN Return(self, Some(create_error_response(
                            request_id, -32601, "Method not found")))
            ELSE LET r == CallHandler(self, method, params)
                 IN IF r.raised
                    THEN Return(r.self, Some(create_error_response(
                                    request_id, -32603, r.text)))
                    ELSE Return(r.self, Some(SuccessResponse(r.val,
                                                             request_id)))

\* ------------------------------------------------------------- frames read
\* A frame read from a socket: a text frame that is not JSON, a binary frame
\* that is not UTF-8, or a frame holding the JSON value `value`.
BadJson == [syntax |-> "invalid_json", value |-> JsonNull]
BadUtf8 == [syntax |-> "invalid_utf8", value |-> JsonNull]
Json(v) == [syntax |-> "json", value |-> v]

\* json.loads(message): JSONDecodeError for invalid JSON, UnicodeDecodeError
\* (a ValueError that is not a JSONDecodeError) for bytes that are not UTF-8
json_loads(message) ==
    CASE message.syntax = "invalid_json" ->
            [raised |-> TRUE, type |-> "JSONDecodeError", value |-> JsonNull]
      [] message.syntax = "invalid_utf8" ->
            [raised |-> TRUE, type |-> "UnicodeDecodeError",
             value |-> JsonNull]
      [] OTHER -> [raised |-> FALSE, type |-> "", value |-> message.value]

\* ------------------------------------------------------------- socket write
\* Send that puts the frame ahead of the frames the coroutine has written
\* since it resumed
Send_ahead(self, c, frame) ==
    IF self.open[c]
    THEN Return([self EXCEPT !.sent[c] = <<frame>> \o self.sent[c]], RNone)
    ELSE Raise(self, "ConnectionClosed", "")

\* await websocket.send(data) on connection c: the frame is written when the
\* connection is open, ConnectionClosed is raised when it is not.
Send(self, c, frame) ==
    IF self.open[c]
    THEN Return([self EXCEPT !.sent[c] = Append(self.sent[c], frame)], RNone)
    ELSE Raise(self, "ConnectionClosed", "")

\* send_state_update that sends nothing
send_state_update_skipped(self, c) == Return(self, RNone)

\* send_state_update
send_state_update(self, c) == Send(self, c, StateChanged(self))

\* send_error
send_error(self, c, code, message) ==
    Send(self, c, create_error_response(None, code, message))

\* the body of the `async for` loop of handle_client for one message:
\* branch names the except clause that ran ("" for none), response is what
\* handle_request returned, and raised tells that ConnectionClosed left the
\* loop
LoopBody(self, c, message) ==
    LET decoded == json_loads(message)
        handled == handle_request(self, decoded.value)
        response == IF handled.raised THEN None ELSE handled.val
        written == IF IsNone(response) THEN Return(handled.self, RNone)
                   ELSE Send(handled.self, c, Val(response))
        out(r, branch, resp) ==
            [self |-> r.self, raised |-> r.raised, branch |-> branch,
             response |-> resp]
    IN IF decoded.raised /\ decoded.type = "JSONDecodeError"
       THEN out(send_error(self, c, -32700, "Parse error"),
                "JSONDecodeError", None)
       ELSE IF decoded.raised
       THEN out(send_error(self, c, -32603, "Internal error"),
                "Exception", None)
       ELSE IF handled.raised
       THEN out(send_error(handled.self, c, -32603, "Internal error"),
                "Exception", None)
       ELSE IF written.raised
       THEN out(send_error(written.self, c, -32603, "Internal error"),
                "Exception", response)
       ELSE out(written, "", response)

\* Unregister that clears the registered set
Unregister_all(conns, c) == {}

\* Unregister without the finally clause
Unregister_forgotten(conns, c) == conns

\* the finally clause of handle_client: self.connections.remove(websocket)
Unregister(conns, c) == conns \ {c}

\* ------------------------------------------------------------ the inputs
\* a request object {"method": method, "id": id, "params": params}; absent
\* is the set of those keys left out
Request(method, id, params, absent) ==
    [EmptyDict EXCEPT !.keys = {"method", "id", "params"} \ absent,
                      !.method = method, !.id = id, !.params = Some(params)]

Id1 == Some("1")
Id2 == Some("2")

Number(n) == [t |-> "number", v |-> n]
Levels == {Number(0 - 5), Number(5), Number(15), Number(FloatMax + 1),
           [t |-> "numeric_string", v |-> 5],
           [t |-> "nan", v |-> 0]}

VolumeParams ==
    {[EmptyDict EXCEPT !.keys = {"level"}, !.level = l] : l \in Levels}
    \cup {EmptyDict}

Options == {[py |-> "NoneType", keys |-> {}, autoplay |-> TRUE],
            NoOptions,
            [py |-> "dict", keys |-> {"autoplay"}, autoplay |-> FALSE]}

LoadParams ==
    {[EmptyDict EXCEPT !.keys = {"url", "options"}, !.url = "a.mp3",
                       !.options = o] : o \in Options}
    \cup {EmptyDict}

\* the methods of the protocol
Methods == {"getState", "getSupportedMediaTypes", "play", "pause", "stop",
            "setVolume", "load"}

\* requests with an id, without a nested request in params
FlatRequests ==
    {Request(m, Id1, EmptyDict, {"params"}) :
        m \in (Methods \ {"getState", "setVolume", "load"})
              \cup {"seek", "client"}}
    \cup {Request("setVolume", Id1, p, {}) : p \in VolumeParams}
    \cup {Request("load", Id1, p, {}) : p \in LoadParams}
    \cup {Request("", Id1, EmptyDict, {"method", "params"}),
          Request("getState", Id2, EmptyDict, {"params"})}

\* requests without id, or with the id null
Notifications ==
    {Request(m, None, EmptyDict, {"id", "params"}) :
        m \in {"play", "stop"}}
    \cup {Request("stop", None, EmptyDict, {"params"}),
          Request("setVolume", None, [EmptyDict EXCEPT !.keys = {"level"},
                                        !.level = Number(5)], {"id"}),
          Request("load", None, [EmptyDict EXCEPT !.keys = {"url"},
                                   !.url = "a.mp3"], {"id"})}

\* what a "request" request carries in params
NestedParams ==
    {Request("stop", Id2, EmptyDict, {"params"})}

Requests ==
    FlatRequests \cup Notifications
    \cup {Request("request", Id1, p, {}) : p \in NestedParams}

Messages ==
    {BadJson, BadUtf8, Json(EmptyList)} \cup {Json(r) : r \in Requests}

\* ------------------------------------------------------------- the state
VARIABLES
    state,        \* self.state, the PlayerState
    connections,  \* self.connections
    pc,           \* where each connection's handle_client is
    transport,    \* each connection's socket: "none", "open" or "closed"
    sent,         \* the frames written to each socket by the last action
    firstwrite,   \* what wrote the first frame to each socket
    hasread,      \* whether a frame was read from each socket, while it
                  \* is open and its handler runs
    ninitial,     \* number of initial state notifications sent to each
    nregister,    \* number of connections.add for each connection
    nunregister,  \* number of connections.remove for each connection
    unanswered,   \* the ids read from each socket and not answered yet,
                  \* while its handler runs
    misordered,   \* whether a response on the socket had another id than
                  \* the oldest unanswered one
    step,         \* what the last action did
    \* the coroutines, when a run is followed statement by statement
    running,      \* the connection whose coroutine holds the thread, or 0
    at,           \* the statement each handle_client coroutine is at
    local,        \* the local variables of each coroutine
    nsnapshot,    \* number of calls of get_state_dict so far
    ncommand,     \* number of commands read so far
    delivered     \* the numbers of the snapshots written to each socket

vars == <<state, connections, pc, transport, sent, firstwrite, hasread,
          ninitial, nregister, nunregister, unanswered, misordered, step,
          running, at, local, nsnapshot, ncommand, delivered>>

\* the variables of the run that is followed action by action, other than
\* state and connections, and those of the run followed statement by
\* statement
actionvars == <<pc, transport, sent, firstwrite, hasread, ninitial,
                nregister, nunregister, unanswered, misordered, step>>
stmtvars == <<running, at, local, nsnapshot, ncommand, delivered>>

NoFrames == [c \in Conns |-> <<>>]

\* the server as the handlers see it when a coroutine resumes
Server ==
    [state |-> state, connections |-> connections,
     open |-> [c \in Conns |-> transport[c] = "open"],
     sent |-> NoFrames, nbroadcast |-> 0]

\* the record of an action: the connection it ran for, the frame it read,
\* the state, the registered connections and those of them with an open
\* socket it started from, the response handle_request returned, the except
\* clause that ran and the number of calls of websockets.broadcast
Step(op, c, message, response, branch, nbroadcast) ==
    [op |-> op, conn |-> c, message |-> message, before |-> state,
     registered |-> connections,
     receivers |-> {d \in connections : transport[d] = "open"},
     response |-> response, branch |-> branch, nbroadcast |-> nbroadcast]

\* the local variables of a coroutine: the request being handled, the
\* state its handler gives when it runs alone, the number of the next
\* assignment of the handler, the snapshot held in `message` with its
\* number, and what is being sent
NoLocals ==
    [request |-> EmptyDict, alone |-> PlayerState, i |-> 0,
     snapshot |-> get_state_dict([state |-> PlayerState]), number |-> 0,
     sending |-> ""]

\* the id of the request in a frame read from a socket (None when the
\* frame holds no request object, or one without id)
FrameId(message) ==
    IF message.syntax = "json" THEN GetId(message.value) ELSE None

\* the ids that are not null of the responses among the frames
ResponseIds(frames) ==
    LET responses == SelectSeq(frames, LAMBDA f :
                        f.frame \in {"result", "error"} /\ ~IsNone(f.id))
    IN [i \in 1..Len(responses) |-> Val(responses[i].id)]

\* the unanswered ids of a connection after the ids `ids` were answered in
\* this order, and whether each was the oldest unanswered one
RECURSIVE Answer(_, _)
Answer(queue, ids) ==
    IF ids = <<>> THEN [queue |-> queue, ok |-> TRUE]
    ELSE IF queue # <<>> /\ Head(queue) = Head(ids)
    THEN Answer(Tail(queue), Tail(ids))
    ELSE [queue |-> queue, ok |-> FALSE]

\* firstwrite after an action that wrote the frames `frames` as `what`
FirstWrite(frames, what) ==
    [d \in Conns |-> IF firstwrite[d] = "none" /\ frames[d] # <<>>
                     THEN what ELSE firstwrite[d]]

Init ==
    /\ state = PlayerState
    /\ connections = {}
    /\ pc = [c \in Conns |-> "none"]
    /\ transport = [c \in Conns |-> "none"]
    /\ sent = NoFrames
    /\ firstwrite = [c \in Conns |-> "none"]
    /\ hasread = [c \in Conns |-> FALSE]
    /\ ninitial = [c \in Conns |-> 0]
    /\ nregister = [c \in Conns |-> 0]
    /\ nunregister = [c \in Conns |-> 0]
    /\ unanswered = [c \in Conns |-> <<>>]
    /\ misordered = [c \in Conns |-> FALSE]
    /\ step = Step("init", 0, None, None, "", 0)
    /\ running = 0
    /\ at = [c \in Conns |-> "none"]
    /\ local = [c \in Conns |-> NoLocals]
    /\ nsnapshot = 0
    /\ ncommand = 0
    /\ delivered = [c \in Conns |-> <<>>]

\* ------------------------------------------------------------- the actions
\* websockets.serve accepts a connection and schedules handle_client for
\* it; connections are numbered in the order they are accepted
Accept(c) ==
    /\ pc[c] = "none"
    /\ \A d \in 1..(c - 1) : pc[d] # "none"
    /\ pc' = [pc EXCEPT ![c] = "accepted"]
    /\ transport' = [transport EXCEPT ![c] = "open"]
    /\ sent' = NoFrames
    /\ step' = Step("accept", c, None, None, "", 0)
    /\ UNCHANGED <<state, connections, firstwrite, hasread, ninitial,
                   nregister, nunregister, unanswered, misordered>>
    /\ UNCHANGED stmtvars

\* the socket of c closes (the peer closes it or the network fails)
PeerClose(c) ==
    /\ pc[c] \in {"accepted", "loop"}
    /\ transport[c] = "open"
    /\ transport' = [transport EXCEPT ![c] = "closed"]
    /\ sent' = NoFrames
    /\ hasread' = [hasread EXCEPT ![c] = FALSE]
    /\ step' = Step("close", c, None, None, "", 0)
    /\ UNCHANGED <<state, connections, pc, firstwrite, ninitial, nregister,
                   nunregister, unanswered, misordered>>
    /\ UNCHANGED stmtvars

\* what the handler does when a send found the socket closed: the send
\* raises ConnectionClosed at once, and the finally clause runs in the same
\* step ("done"), or the send first waits for the connection to finish
\* closing, and the handler is suspended in it, still registered
\* ("raising")
AfterRaise == {"done", "raising"}

\* handle_client from its start to the first read: register, send the
\* initial state; ConnectionClosed from the send runs the finally clause
HandleClientStart(c) ==
    /\ pc[c] = "accepted"
    /\ \E registered \in {connections \cup {c}} :
       \E r \in {send_state_update(
                    [Server EXCEPT !.connections = registered], c)} :
       \E next \in IF r.raised THEN AfterRaise ELSE {"loop"} :
          /\ connections' = IF next = "done" THEN Unregister(registered, c)
                            ELSE registered
          /\ pc' = [pc EXCEPT ![c] = next]
          /\ sent' = r.self.sent
          /\ firstwrite' = FirstWrite(r.self.sent, "initial")
          /\ ninitial' = [ninitial EXCEPT ![c] = @ + Len(r.self.sent[c])]
          /\ nregister' = [nregister EXCEPT ![c] = @ + 1]
          /\ nunregister' = [nunregister EXCEPT ![c] =
                                IF next = "done" THEN @ + 1 ELSE @]
          /\ step' = Step("start", c, None, None,
                          IF r.raised THEN "ConnectionClosed" ELSE "", 0)
    /\ UNCHANGED <<state, transport, hasread, unanswered, misordered>>
    /\ UNCHANGED stmtvars

\* one turn of the read loop of handle_client: a frame is read, handled and
\* answered; ConnectionClosed from a send runs the finally clause.  A frame
\* that arrived before the socket closed is still read after it closed.
HandleClientMessage(c, message) ==
    /\ pc[c] = "loop"
    /\ \E r \in {LoopBody(Server, c, message)} :
       \E next \in IF r.raised THEN AfterRaise ELSE {"loop"} :
          /\ state' = r.self.state
          /\ connections' = IF next = "done" THEN Unregister(connections, c)
                            ELSE connections
          /\ pc' = [pc EXCEPT ![c] = next]
          /\ sent' = r.self.sent
          /\ firstwrite' = FirstWrite(r.self.sent, "other")
          /\ hasread' = [hasread EXCEPT ![c] =
                                transport[c] = "open" /\ ~r.raised]
          /\ \E a \in {Answer(unanswered[c] \o FrameId(message),
                              ResponseIds(r.self.sent[c]))} :
                /\ unanswered' = [unanswered EXCEPT ![c] =
                                    IF r.raised THEN <<>> ELSE a.queue]
                /\ misordered' = [misordered EXCEPT ![c] = @ \/ ~a.ok]
          /\ nunregister' = [nunregister EXCEPT ![c] =
                                IF next = "done" THEN @ + 1 ELSE @]
          /\ step' = Step("message", c, Some(message), r.response,
                          IF r.raised THEN "ConnectionClosed" ELSE r.branch,
                          r.self.nbroadcast)
    /\ UNCHANGED <<transport, ninitial, nregister>>
    /\ UNCHANGED stmtvars

\* the read finds the socket closed: the iteration ends (after a close
\* frame) or raises ConnectionClosed (without one); the finally clause runs
HandleClientClosed(c, branch) ==
    /\ pc[c] = "loop"
    /\ transport[c] = "closed"
    /\ connections' = Unregister(connections, c)
    /\ pc' = [pc EXCEPT ![c] = "done"]
    /\ sent' = NoFrames
    /\ nunregister' = [nunregister EXCEPT ![c] = @ + 1]
    /\ hasread' = [hasread EXCEPT ![c] = FALSE]
    /\ step' = Step("closed", c, None, None, branch, 0)
    /\ UNCHANGED <<state, transport, firstwrite, ninitial, nregister,
                   unanswered, misordered>>
    /\ UNCHANGED stmtvars

\* the send in which the handler was suspended raises ConnectionClosed; the
\* finally clause runs
HandleClientRaised(c) ==
    /\ pc[c] = "raising"
    /\ connections' = Unregister(connections, c)
    /\ pc' = [pc EXCEPT ![c] = "done"]
    /\ sent' = NoFrames
    /\ nunregister' = [nunregister EXCEPT ![c] = @ + 1]
    /\ step' = Step("raised", c, None, None, "ConnectionClosed", 0)
    /\ UNCHANGED <<state, transport, firstwrite, hasread, ninitial,
                   nregister, unanswered, misordered>>
    /\ UNCHANGED stmtvars

Next ==
    \E c \in Conns :
        \/ Accept(c)
        \/ PeerClose(c)
        \/ HandleClientStart(c)
        \/ \E message \in Messages : HandleClientMessage(c, message)
        \/ \E branch \in {"", "ConnectionClosed"} :
                HandleClientClosed(c, branch)
        \/ HandleClientRaised(c)

Spec == Init /\ [][Next]_vars

TypeOK ==
    /\ state.state \in {"idle", "playing", "paused", "error"}
    /\ state.volume \in 0..10
    /\ connections \subseteq Conns
    /\ \A c \in Conns :
          pc[c] \in {"none", "accepted", "loop", "raising", "done"}

\* ------------------------------------------- statement by statement
\* The same server with each coroutine followed statement by statement, to
\* see which statements of different coroutines can interleave.  The
\* sockets stay open.  A coroutine runs when it holds the thread
\* (running); it gives the thread up only at an await that suspends.

\* Suspends that lets every await of a coroutine suspend
Suspends_at_calls(point) == point \in {"recv", "call"}

\* Suspends that lets send suspend before it writes
Suspends_before_write(point) == point \in {"recv", "send"}

\* whether the await at `point` can suspend the coroutine: "recv" is the
\* read of `async for`, which waits for a frame; "call" is the await of a
\* coroutine of the server (handle_request, the handler, broadcast_state),
\* which runs it in place; "send" is websocket.send up to its write, which
\* writes to the transport before it waits
Suspends(point) == point = "recv"

\* who holds the thread after coroutine c passed the await at `point`
Yield(c, point) == IF Suspends(point) THEN 0 ELSE c

\* the commands read in these runs
Commands ==
    {Request("stop", Id1, EmptyDict, {"params"}),
     Request("setVolume", Id1, [EmptyDict EXCEPT !.keys = {"level"},
                                  !.level = Number(5)], {}),
     Request("load", Id1, [EmptyDict EXCEPT !.keys = {"url"},
                             !.url = "a.mp3"], {})}

\* the number of assignments to self.state in the handler of a command
NAssignments(request) == IF request.method = "setVolume" THEN 1 ELSE 2

\* the state after the i-th assignment of the handler of a command
Assignment(request, i, st) ==
    LET params == GetParams(request)
    IN CASE request.method = "stop" /\ i = 1 -> [st EXCEPT !.state = "idle"]
         [] request.method = "stop" /\ i = 2 -> [st EXCEPT !.media = None]
         [] request.method = "setVolume" ->
                [st EXCEPT !.volume = ClampLevel(params.level)]
         [] request.method = "load" /\ i = 1 ->
                [st EXCEPT !.media = Some(LoadedMedia(params.url))]
         [] request.method = "load" /\ i = 2 ->
                [st EXCEPT !.state = IF GetAutoplay(GetOptions(params))
                                     THEN "playing" ELSE "paused"]

\* websockets.serve accepts a connection and creates the task that runs
\* handle_client for it
Serve(c) ==
    /\ running = 0
    /\ at[c] = "none"
    /\ \A d \in 1..(c - 1) : at[d] # "none"
    /\ at' = [at EXCEPT ![c] = "handle_client"]
    /\ UNCHANGED <<state, connections, running, local, nsnapshot, ncommand,
                   delivered>>
    /\ UNCHANGED actionvars

\* the event loop runs a coroutine that is ready: a task that has not
\* started, or one suspended at an await other than the read
Resume(c) ==
    /\ running = 0
    /\ at[c] \notin {"none", "recv"}
    /\ running' = c
    /\ UNCHANGED <<state, connections, at, local, nsnapshot, ncommand,
                   delivered>>
    /\ UNCHANGED actionvars

\* self.connections.add(websocket)
ConnectionsAdd(c) ==
    /\ running = c
    /\ at[c] = "handle_client"
    /\ connections' = connections \cup {c}
    /\ at' = [at EXCEPT ![c] = "send_state_update"]
    /\ UNCHANGED <<state, running, local, nsnapshot, ncommand, delivered>>
    /\ UNCHANGED actionvars

\* send_state_update builds its message from get_state_dict()
InitialSnapshot(c) ==
    /\ running = c
    /\ at[c] = "send_state_update"
    /\ local' = [local EXCEPT ![c].snapshot = get_state_dict(Server),
                              ![c].number = nsnapshot + 1,
                              ![c].sending = "stateChanged"]
    /\ nsnapshot' = nsnapshot + 1
    /\ at' = [at EXCEPT ![c] = "send"]
    /\ UNCHANGED <<state, connections, running, ncommand, delivered>>
    /\ UNCHANGED actionvars

\* await websocket.send(data), up to the write
SendStart(c) ==
    /\ running = c
    /\ at[c] = "send"
    /\ at' = [at EXCEPT ![c] = "write"]
    /\ running' = Yield(c, "send")
    /\ UNCHANGED <<state, connections, local, nsnapshot, ncommand,
                   delivered>>
    /\ UNCHANGED actionvars

\* websocket.send writes the frame; the coroutine goes on to the read of
\* `async for`, where it suspends
SendWrite(c) ==
    /\ running = c
    /\ at[c] = "write"
    /\ delivered' = [delivered EXCEPT ![c] =
                        IF local[c].sending = "stateChanged"
                        THEN Append(@, local[c].number) ELSE @]
    /\ at' = [at EXCEPT ![c] = "recv"]
    /\ running' = Yield(c, "recv")
    /\ UNCHANGED <<state, connections, local, nsnapshot, ncommand>>
    /\ UNCHANGED actionvars

\* a frame arrives and the read of `async for` returns it
Recv(c, request) ==
    /\ running = 0
    /\ at[c] = "recv"
    /\ ncommand < MaxCommands
    /\ ncommand' = ncommand + 1
    /\ running' = c
    /\ local' = [local EXCEPT
                    ![c].request = request,
                    ![c].alone = CallHandler(Server, request.method,
                                             GetParams(request)).self.state,
                    ![c].i = 1]
    /\ at' = [at EXCEPT ![c] = "handle_request"]
    /\ UNCHANGED <<state, connections, nsnapshot, delivered>>
    /\ UNCHANGED actionvars

\* await self.handle_request(request), await handler(params)
AwaitHandler(c) ==
    /\ running = c
    /\ at[c] = "handle_request"
    /\ at' = [at EXCEPT ![c] = "handler"]
    /\ running' = Yield(c, "call")
    /\ UNCHANGED <<state, connections, local, nsnapshot, ncommand,
                   delivered>>
    /\ UNCHANGED actionvars

\* one assignment to self.state in the handler
Assign(c) ==
    /\ running = c
    /\ at[c] = "handler"
    /\ state' = Assignment(local[c].request, local[c].i, state)
    /\ IF local[c].i = NAssignments(local[c].request)
       THEN at' = [at EXCEPT ![c] = "broadcast_state"] /\ local' = local
       ELSE at' = at /\ local' = [local EXCEPT ![c].i = @ + 1]
    /\ UNCHANGED <<connections, running, nsnapshot, ncommand, delivered>>
    /\ UNCHANGED actionvars

\* await self.broadcast_state()
AwaitBroadcastState(c) ==
    /\ running = c
    /\ at[c] = "broadcast_state"
    /\ at' = [at EXCEPT ![c] = "get_state_dict"]
    /\ running' = Yield(c, "call")
    /\ UNCHANGED <<state, connections, local, nsnapshot, ncommand,
                   delivered>>
    /\ UNCHANGED actionvars

\* broadcast_state builds its message from get_state_dict()
BroadcastSnapshot(c) ==
    /\ running = c
    /\ at[c] = "get_state_dict"
    /\ local' = [local EXCEPT ![c].snapshot = get_state_dict(Server),
                              ![c].number = nsnapshot + 1]
    /\ nsnapshot' = nsnapshot + 1
    /\ at' = [at EXCEPT ![c] = "broadcast"]
    /\ UNCHANGED <<state, connections, running, ncommand, delivered>>
    /\ UNCHANGED actionvars

\* websockets.broadcast(self.connections, data) writes the message to every
\* registered connection; the handler returns and the response is sent
Broadcast(c) ==
    /\ running = c
    /\ at[c] = "broadcast"
    /\ delivered' = [d \in Conns |->
                        IF d \in connections
                        THEN Append(delivered[d], local[c].number)
                        ELSE delivered[d]]
    /\ local' = [local EXCEPT ![c].sending = "response"]
    /\ at' = [at EXCEPT ![c] = "send"]
    /\ UNCHANGED <<state, connections, running, nsnapshot, ncommand>>
    /\ UNCHANGED actionvars

NextStatement ==
    \E c \in Conns :
        \/ Serve(c)
        \/ Resume(c)
        \/ ConnectionsAdd(c)
        \/ InitialSnapshot(c)
        \/ SendStart(c)
        \/ SendWrite(c)
        \/ \E request \in Commands : Recv(c, request)
        \/ AwaitHandler(c)
        \/ Assign(c)
        \/ AwaitBroadcastState(c)
        \/ BroadcastSnapshot(c)
        \/ Broadcast(c)

SpecStatements == Init /\ [][NextStatement]_vars

\* ============================================================ properties
\* The last action handled a frame read from a socket.
Handled == step.op = "message"

\* The last action handled a frame that decoded to a request object with a
\* method; Req is that object.
HandledRequest ==
    /\ Handled
    /\ Val(step.message).syntax = "json"
    /\ Has(Val(step.message).value, "method")
Req == Val(step.message).value

\* ... and the request has an id that is not null
HandledCall == HandledRequest /\ ~IsNone(GetId(Req))

\* the frames of kind k in a sequence of frames
FramesOf(frames, k) == SelectSeq(frames, LAMBDA f : f.frame = k)

\* The handling of the last frame ended in an error response: the one
\* handle_request returned, or the one send_error wrote.
EndedInError ==
    /\ Handled
    /\ \/ ~IsNone(step.response) /\ Val(step.response).frame = "error"
       \/ FramesOf(sent[step.conn], "error") # <<>>

\* The last action handled a command that changes the state and it returned
\* a result: play when paused, pause when playing, stop, setVolume with a
\* level, load with a url.
SucceededMutation ==
    /\ HandledCall
    /\ ~IsNone(step.response) /\ Val(step.response).frame = "result"
    /\ \/ Req.method = "play" /\ step.before.state = "paused"
       \/ Req.method = "pause" /\ step.before.state = "playing"
       \/ Req.method = "stop"
       \/ Req.method = "setVolume" /\ Has(GetParams(Req), "level")
       \/ Req.method = "load" /\ Has(GetParams(Req), "url")

\* the stateChanged notification of the state as it is now
CurrentNotification ==
    [frame |-> "notification", method |-> "stateChanged",
     params |-> [state |-> state.state, media |-> state.media,
                 volume |-> state.volume, muted |-> state.muted,
                 error |-> state.error]]

\* C1: after a command that changed the state and succeeded, every session
\* that was registered with an open socket when the command ran has been sent
\* one stateChanged notification, and it carries the state as it is now.
C1_MutationIsBroadcast ==
    SucceededMutation =>
        \A d \in step.receivers :
            FramesOf(sent[d], "notification") = <<CurrentNotification>>

\* C1 witness: play on one connection resumed playback and a second
\* connection, from which nothing was ever read, was sent the notification.
C1_Witness ==
    /\ SucceededMutation
    /\ Req.method = "play"
    /\ state.state = "playing"
    /\ \E d \in step.receivers :
          /\ d # step.conn
          /\ ~hasread[d]
          /\ sent[d] = <<CurrentNotification>>

\* C2: a request whose handling ended in an error response left the
\* PlayerState as it was before the request.
C2_ErrorLeavesStateUnchanged == EndedInError => state = step.before

\* C3: media is absent whenever state is idle.
C3_IdleHasNoMedia == state.state = "idle" => IsNone(state.media)

\* C4: a request with an id whose method is not a method of the protocol is
\* answered with the error -32601 and the id of the request, and the
\* PlayerState is as it was.
C4_UnknownMethodNotFound ==
    HandledCall /\ Req.method \notin Methods =>
        /\ step.response = Some(create_error_response(GetId(Req), -32601,
                                                      "Method not found"))
        /\ state = step.before

\* C5: handling a request object without the key id, for a method of the
\* protocol, writes no response frame (result or error) to its connection.
C5_NotificationGetsNoResponse ==
    HandledRequest /\ Req.method \in Methods /\ ~Has(Req, "id") =>
        /\ IsNone(step.response)
        /\ FramesOf(sent[step.conn], "result") = <<>>
        /\ FramesOf(sent[step.conn], "error") = <<>>

\* C5 witness: a stop without id was handled on a connection whose socket is
\* open, and nothing was written to it.
C5_Witness ==
    /\ HandledRequest
    /\ Req.method = "stop"
    /\ ~Has(Req, "id")
    /\ step.conn \in step.receivers
    /\ sent[step.conn] = <<>>

\* C6: a frame that does not decode, read from a connection whose socket is
\* open, is answered with exactly the error -32700 with id null, and the
\* connection stays registered with its read loop running.
C6_MalformedFrameGetsParseError ==
    /\ Handled
    /\ Val(step.message).syntax # "json"
    /\ step.conn \in step.receivers
    => /\ sent[step.conn] =
            <<create_error_response(None, -32700, "Parse error")>>
       /\ step.conn \in connections
       /\ pc[step.conn] = "loop"

\* C7: every connection is registered at most once and unregistered at most
\* once, never unregistered before it is registered; a connection whose
\* handler has finished was registered once and unregistered once and is
\* not in the registered set, and a connection in the registered set has
\* its handler in the read loop or suspended in a send.
C7_RegisterUnregisterOnce ==
    \A c \in Conns :
        /\ nregister[c] <= 1
        /\ nunregister[c] <= nregister[c]
        /\ pc[c] = "done" =>
              nregister[c] = 1 /\ nunregister[c] = 1 /\ c \notin connections
        /\ c \in connections <=> pc[c] \in {"loop", "raising"}
        /\ pc[c] \in {"loop", "raising"} =>
              nregister[c] = 1 /\ nunregister[c] = 0

\* C7 witness: a handler finished because the send of a response found the
\* socket closed, while another connection's handler had finished before.
C7_Witness ==
    /\ Handled
    /\ step.branch = "ConnectionClosed"
    /\ ~IsNone(step.response)
    /\ pc[step.conn] = "done"
    /\ \E d \in Conns \ {step.conn} : pc[d] = "done"
    /\ connections = {}

\* C8: a session is sent at most one initial notification; once it is in
\* the read loop, and when a frame read from it was handled, it has been
\* sent exactly one, and that was the first frame written to it; the initial
\* notification carries the state as it is when the session registers.
C8_InitialNotificationFirst ==
    \A c \in Conns :
        /\ ninitial[c] <= 1
        /\ pc[c] = "loop" \/ (Handled /\ step.conn = c) =>
              ninitial[c] = 1 /\ firstwrite[c] = "initial"
        /\ firstwrite[c] \in {"none", "initial"}
        /\ step.op = "start" /\ step.conn = c /\ step.branch = "" =>
              sent[c] = <<CurrentNotification>>

\* C8 witness: a session registered while another was connected and the
\* state was no longer the initial one, and was sent that state.
C8_Witness ==
    /\ step.op = "start"
    /\ step.branch = ""
    /\ state # PlayerState
    /\ step.receivers # {}
    /\ sent[step.conn] = <<CurrentNotification>>
    /\ ~hasread[step.conn]

\* C9: when the handling of a frame ended in an error response, no
\* stateChanged notification was written to any session and
\* websockets.broadcast was not called.
C9_FailureIsNotBroadcast ==
    EndedInError =>
        /\ step.nbroadcast = 0
        /\ \A d \in Conns : FramesOf(sent[d], "notification") = <<>>

\* C9 witness: a load with a url failed on its options while two sessions
\* were registered with open sockets, and only the error was written.
C9_Witness ==
    /\ EndedInError
    /\ HandledCall
    /\ Req.method = "load"
    /\ Has(GetParams(Req), "url")
    /\ Cardinality(step.receivers) >= 2
    /\ \A d \in Conns \ {step.conn} : sent[d] = <<>>
    /\ Len(sent[step.conn]) = 1

\* C10: a stop request with an id leaves state idle and media absent,
\* returns true, calls websockets.broadcast once, and every session
\* registered with an open socket is sent exactly one notification.
C10_StopResetsAndBroadcastsOnce ==
    HandledCall /\ Req.method = "stop" =>
        /\ state.state = "idle"
        /\ IsNone(state.media)
        /\ step.response = Some(SuccessResponse(RTrue, GetId(Req)))
        /\ step.nbroadcast = 1
        /\ \A d \in step.receivers :
              FramesOf(sent[d], "notification") = <<CurrentNotification>>

\* C10 witness: stop while playing a loaded track, with two sessions
\* registered.
C10_Witness ==
    /\ HandledCall
    /\ Req.method = "stop"
    /\ step.before.state = "playing"
    /\ ~IsNone(step.before.media)
    /\ Cardinality(step.receivers) >= 2
    /\ state.state = "idle"

\* no session was sent a notification and websockets.broadcast was not
\* called
NothingBroadcast ==
    /\ step.nbroadcast = 0
    /\ \A d \in Conns : FramesOf(sent[d], "notification") = <<>>

\* every session registered with an open socket was sent one notification,
\* of the state as it is now, by one call of websockets.broadcast
BroadcastOnce ==
    /\ step.nbroadcast = 1
    /\ \A d \in step.receivers :
          FramesOf(sent[d], "notification") = <<CurrentNotification>>

\* the last request was answered with the result true
ReturnedTrue == step.response = Some(SuccessResponse(RTrue, GetId(Req)))

\* C11: play changes the state only from paused, to playing, and pause only
\* from playing, to paused, and then broadcasts; in every other state the
\* command leaves the PlayerState as it was and broadcasts nothing; both
\* return true.
C11_PlayPauseGuarded ==
    /\ HandledCall /\ Req.method = "play" =>
          /\ ReturnedTrue
          /\ IF step.before.state = "paused"
             THEN state = [step.before EXCEPT !.state = "playing"]
                  /\ BroadcastOnce
             ELSE state = step.before /\ NothingBroadcast
    /\ HandledCall /\ Req.method = "pause" =>
          /\ ReturnedTrue
          /\ IF step.before.state = "playing"
             THEN state = [step.before EXCEPT !.state = "paused"]
                  /\ BroadcastOnce
             ELSE state = step.before /\ NothingBroadcast

\* C11 witness: play while idle, with two sessions registered: true is
\* returned and written, nothing else.
C11_Witness ==
    /\ HandledCall
    /\ Req.method = "play"
    /\ step.before.state = "idle"
    /\ Cardinality(step.receivers) >= 2
    /\ sent[step.conn] = <<SuccessResponse(RTrue, GetId(Req))>>
    /\ state = step.before

\* the level of the last setVolume request is a number that float()
\* converts (a JSON number or a string that float() reads as a number), and
\* its value
LevelIsNumber ==
    /\ HandledCall
    /\ Req.method = "setVolume"
    /\ Has(GetParams(Req), "level")
    /\ GetParams(Req).level.t \in {"number", "numeric_string"}
    /\ CanFloat(GetParams(Req).level)
LevelValue == GetParams(Req).level.v

\* clamp(v, 0, 1), in tenths
Clamp01(v) == IF v < 0 THEN 0 ELSE IF v > 10 THEN 10 ELSE v

\* C12: the volume is in [0, 1] in every reachable state; after a setVolume
\* request with a numeric level v the volume is clamp(v, 0, 1), only the
\* volume has changed, and every session registered with an open socket was
\* sent one notification that carries this volume.
C12_VolumeClamped ==
    /\ state.volume \in 0..10
    /\ LevelIsNumber =>
          /\ state = [step.before EXCEPT !.volume = Clamp01(LevelValue)]
          /\ ReturnedTrue
          /\ BroadcastOnce
          /\ \A d \in step.receivers :
                sent[d][1].params.volume = Clamp01(LevelValue)

\* C12 witness: a level above 1 was clamped to 1 from a lower volume, and a
\* second session was sent the new volume.
C12_Witness ==
    /\ LevelIsNumber
    /\ LevelValue > 10
    /\ step.before.volume < 10
    /\ state.volume = 10
    /\ \E d \in step.receivers \ {step.conn} :
          sent[d] = <<CurrentNotification>>

\* the last request was a load with a url
LoadWithUrl ==
    HandledCall /\ Req.method = "load" /\ Has(GetParams(Req), "url")

\* options.autoplay of that request is false (it is absent, or true,
\* otherwise)
AutoplayFalse ==
    LET params == GetParams(Req)
    IN /\ Has(params, "options")
       /\ params.options.py = "dict"
       /\ "autoplay" \in params.options.keys
       /\ ~params.options.autoplay

\* C13: a load with a url sets media to {url, "music", 0, 0} and state to
\* paused when options.autoplay is false and to playing otherwise, leaves the
\* other fields, broadcasts once and returns true.
C13_LoadSetsMediaAndState ==
    LoadWithUrl =>
        /\ state = [step.before EXCEPT
                        !.media = Some(LoadedMedia(GetParams(Req).url)),
                        !.state = IF AutoplayFalse THEN "paused"
                                  ELSE "playing"]
        /\ ReturnedTrue
        /\ BroadcastOnce

\* C16: on every connection the ids, not null, of the responses written so
\* far are, in this order, the first of the ids, not null, of the requests
\* read from it: no response was written with another id than the oldest
\* unanswered one, so none is answered twice or out of turn.
C16_ResponsesInRequestOrder ==
    /\ \A c \in Conns : ~misordered[c]
    /\ Handled /\ ~IsNone(FrameId(Val(step.message))) =>
          ResponseIds(sent[step.conn]) \in
              {<<>>, <<Val(FrameId(Val(step.message)))>>}

\* C16 witness: the only connection there is, which had a request with the
\* id "1" that changed the state answered before, read a request with the
\* id "2" and was written its response, and nothing is left unanswered.
C16_Witness ==
    /\ Handled
    /\ FrameId(Val(step.message)) = Id2
    /\ ResponseIds(sent[step.conn]) = <<"2">>
    /\ step.before # PlayerState
    /\ \A d \in Conns \ {step.conn} : pc[d] = "none"
    /\ unanswered[step.conn] = <<>>

\* the last action ended the handler of its connection: the read found the
\* socket closed, or a send raised ConnectionClosed
Disconnected ==
    /\ step.op \in {"closed", "raised", "start", "message"}
    /\ pc[step.conn] = "done"

\* C17: the step in which a socket closes, and the step in which the handler
\* of a closed socket ends and unregisters its session, leave the
\* PlayerState as it was; they remove no other session from the registered
\* set, and the handler of every other registered session is still in its
\* read loop, where its next request is handled, unless its own socket is
\* closed and it is suspended in a send that will raise.
C17_CloseEndsOnlyOwnLoop ==
    /\ step.op \in {"close", "closed", "raised"} => state = step.before
    /\ step.op = "close" => connections = step.registered
    /\ Disconnected =>
          /\ connections = step.registered \ {step.conn}
          /\ \A d \in step.registered \ {step.conn} :
                /\ pc[d] \in {"loop", "raising"}
                /\ transport[d] = "open" => pc[d] = "loop"

\* C17 witness: the handler of a connection found its socket closed and
\* ended while the state was not the initial one and another session was
\* registered with an open socket; that session is registered still.
C17_Witness ==
    /\ step.op = "closed"
    /\ step.before # PlayerState
    /\ state = step.before
    /\ \E d \in step.receivers \ {step.conn} :
          d \in connections /\ pc[d] = "loop"

\* C18: when websockets.broadcast was called while a registered session had
\* its socket closed, every registered session with an open socket was
\* still sent the notification, nothing was written to the closed ones, and
\* handle_request returned the success response of the command.
C18_BroadcastSkipsClosed ==
    /\ Handled
    /\ step.nbroadcast >= 1
    /\ step.registered \ step.receivers # {}
    => /\ \A d \in step.receivers :
             FramesOf(sent[d], "notification") = <<CurrentNotification>>
       /\ \A d \in step.registered \ step.receivers : sent[d] = <<>>
       /\ ~IsNone(step.response)
       /\ Val(step.response).frame = "result"

\* C18 witness: a command broadcast while an earlier connection was
\* registered with its socket closed; a later connection was sent the
\* notification and the command returned its result.
C18_Witness ==
    /\ SucceededMutation
    /\ step.nbroadcast = 1
    /\ \E d \in step.registered \ step.receivers :
       \E e \in step.receivers :
          /\ d < e
          /\ FramesOf(sent[e], "notification") = <<CurrentNotification>>
    /\ Val(step.response).frame = "result"

\* C19: handling a request object for any method whose id is absent or null
\* leaves the PlayerState as it was, calls websockets.broadcast not at all,
\* returns no response and writes no frame to any session.
C19_NotificationRunsNoHandler ==
    HandledRequest /\ IsNone(GetId(Req)) =>
        /\ state = step.before
        /\ NothingBroadcast
        /\ IsNone(step.response)
        /\ \A d \in Conns : sent[d] = <<>>

\* C19 witness: a stop whose id is null was handled while a track was
\* playing and two sessions were registered with open sockets; the track is
\* still playing and nothing was written.
C19_Witness ==
    /\ HandledRequest
    /\ Req.method = "stop"
    /\ Has(Req, "id")
    /\ IsNone(GetId(Req))
    /\ step.before.state = "playing"
    /\ state.state = "playing"
    /\ Cardinality(step.receivers) >= 2
    /\ sent = NoFrames

\* C20: after a command that changed the state and succeeded, issued on a
\* connection whose socket is open, the frames written to that connection
\* while its request was handled are the stateChanged notification of the
\* new state and then the success response, and nothing else: no other
\* response lies between the two.
C20_NotificationBeforeResponse ==
    SucceededMutation /\ step.conn \in step.receivers =>
        sent[step.conn] = <<CurrentNotification, Val(step.response)>>

\* C20 witness: a stop with an id while a track was playing: the issuing
\* connection was written the notification of the idle state and then the
\* result true.
C20_Witness ==
    /\ SucceededMutation
    /\ Req.method = "stop"
    /\ step.before.state = "playing"
    /\ step.conn \in step.receivers
    /\ Len(sent[step.conn]) = 2
    /\ sent[step.conn][1].frame = "notification"
    /\ sent[step.conn][1].params.state = "idle"
    /\ sent[step.conn][2] = SuccessResponse(RTrue, GetId(Req))

\* the statements of a coroutine between the read of a command and the
\* broadcast of its snapshot
InCommand ==
    {"handle_request", "handler", "broadcast_state", "get_state_dict",
     "broadcast"}

\* C14: while the coroutine of a connection is between the read of a
\* command and the broadcast of that command's snapshot, it holds the thread
\* and every other coroutine is suspended before its first statement or at
\* its read; and the snapshot it is about to broadcast is the state its
\* handler gives when it runs alone from the state the command was read in.
C14_CommandAndSnapshotAtomic ==
    \A c \in Conns :
        /\ at[c] \in InCommand =>
              /\ running = c
              /\ \A d \in Conns \ {c} :
                    at[d] \in {"none", "handle_client", "recv"}
        /\ at[c] = "broadcast" =>
              /\ local[c].snapshot =
                    get_state_dict([state |-> local[c].alone])
              /\ local[c].snapshot = get_state_dict(Server)

\* C14 witness: a load is about to broadcast its snapshot while another
\* registered connection, whose command ran before, waits at its read.
C14_Witness ==
    \E c \in Conns :
        /\ at[c] = "broadcast"
        /\ local[c].request.method = "load"
        /\ local[c].snapshot.state = "playing"
        /\ \E d \in connections \ {c} :
              /\ at[d] = "recv"
              /\ local[d].request.method = "setVolume"
              /\ local[c].snapshot.volume = 5

\* C15: the numbers of the snapshots written to a socket, the initial one
\* and the broadcast ones, increase: no snapshot is written to a session
\* after one that was taken later.
C15_SnapshotsInOrder ==
    \A c \in Conns :
        \A i, j \in 1..Len(delivered[c]) :
            i < j => delivered[c][i] < delivered[c][j]

\* C15 witness: a session was written a broadcast snapshot, then a second
\* session registered and was written its initial snapshot, then both were
\* written a later broadcast snapshot.
C15_Witness ==
    \E c, d \in Conns :
        /\ c # d
        /\ Len(delivered[c]) >= 3
        /\ Len(delivered[d]) >= 2
        /\ delivered[c][2] < delivered[d][1]
        /\ delivered[d][2] = delivered[c][3]

====
